---- MODULE Spec2Model ----
(***************************************************************************)
(* Model of gpflow/experimental/check_shapes/parser.py: the argument-spec  *)
(* model builder, the Sphinx docstring rewriter, the terminal-description  *)
(* table construction and the two cached entry points.                     *)
(*                                                                         *)
(* Text is a sequence of one-character strings.  Python's None is the      *)
(* empty sequence and a present optional value x is <<x>>.                 *)
(***************************************************************************)
EXTENDS Integers, Sequences, FiniteSets, TLC

VARIABLES
    pc,          \* position of the running operation
    tree,        \* the parse tree (or input table) the running operation works on
    acc,         \* the operation's accumulator: `result`, `out`, ...
    idx,         \* loop index of the running operation
    aux,         \* the operation's remaining locals: `pos`, `missing`/`unused`, ...
    ret,         \* the value returned by the finished operation
    argument_spec_cache,      \* _ARGUMENT_SPEC_CACHE
    sphinx_docstring_cache,   \* _SPHINX_DOCSTRING_CACHE
    rewrite_docstrings,       \* the value get_rewrite_docstrings() returns
    last                      \* record of the last entry-point call

vars == <<pc, tree, acc, idx, aux, ret, argument_spec_cache,
          sphinx_docstring_cache, rewrite_docstrings, last>>

-----------------------------------------------------------------------------
(* Bounds of the model. *)

MaxHops == 2
MaxDims == 2
MaxRenderDims == 3
MaxFields == 2
MaxSpecs == 2

-----------------------------------------------------------------------------
(* Text helpers: Python str operations used by the code. *)

None == <<>>
Some(x) == <<x>>

\* Code points of the characters the model uses (str comparison is by code point).
CodePoint ==
    ("\t" :> 9) @@ ("\n" :> 10) @@ (" " :> 32) @@ ("\"" :> 34) @@ ("(" :> 40) @@
    (")" :> 41) @@ ("*" :> 42) @@ ("+" :> 43) @@ ("," :> 44) @@ ("-" :> 45) @@
    ("." :> 46) @@ ("0" :> 48) @@ ("1" :> 49) @@ ("2" :> 50) @@ ("3" :> 51) @@
    ("4" :> 52) @@ ("5" :> 53) @@ ("6" :> 54) @@ ("7" :> 55) @@ ("8" :> 56) @@
    ("9" :> 57) @@ (":" :> 58) @@ ("=" :> 61) @@ ("D" :> 68) @@ ("[" :> 91) @@
    ("]" :> 93) @@ ("a" :> 97) @@ ("b" :> 98) @@ ("c" :> 99) @@ ("d" :> 100) @@
    ("e" :> 101) @@ ("h" :> 104) @@ ("i" :> 105) @@ ("m" :> 109) @@
    ("n" :> 110) @@ ("o" :> 111) @@ ("p" :> 112) @@ ("r" :> 114) @@
    ("s" :> 115) @@ ("t" :> 116) @@ ("u" :> 117) @@ ("x" :> 120) @@
    ("y" :> 121)

Digits == <<"0", "1", "2", "3", "4", "5", "6", "7", "8", "9">>

DigitValue(c) == CHOOSE d \in 0..9 : Digits[d + 1] = c

RECURSIVE NatOfDigits(_)
NatOfDigits(s) ==
    IF s = <<>> THEN 0
    ELSE 10 * NatOfDigits(SubSeq(s, 1, Len(s) - 1)) + DigitValue(s[Len(s)])

\* int(token): an optional sign followed by decimal digits.
IntOfStr(s) ==
    IF s # <<>> /\ s[1] = "-" THEN 0 - NatOfDigits(Tail(s))
    ELSE IF s # <<>> /\ s[1] = "+" THEN NatOfDigits(Tail(s))
    ELSE NatOfDigits(s)

RECURSIVE StrOfNat(_)
StrOfNat(n) ==
    IF n < 10 THEN <<Digits[n + 1]>>
    ELSE StrOfNat(n \div 10) \o <<Digits[(n % 10) + 1]>>

\* str(int): decimal digits, "-" first for a negative number.
StrOfInt(n) == IF n < 0 THEN <<"-">> \o StrOfNat(0 - n) ELSE StrOfNat(n)

\* a < b for Python strings.
RECURSIVE StrLess(_, _)
StrLess(a, b) ==
    IF b = <<>> THEN FALSE
    ELSE IF a = <<>> THEN TRUE
    ELSE IF a[1] = b[1] THEN StrLess(Tail(a), Tail(b))
    ELSE CodePoint[a[1]] < CodePoint[b[1]]

\* "".join(parts)
RECURSIVE Concat(_)
Concat(parts) == IF parts = <<>> THEN <<>> ELSE Head(parts) \o Concat(Tail(parts))

\* sep.join(parts)
RECURSIVE JoinWith(_, _)
JoinWith(sep, parts) ==
    IF parts = <<>> THEN <<>>
    ELSE IF Len(parts) = 1 THEN parts[1]
    ELSE parts[1] \o sep \o JoinWith(sep, Tail(parts))

\* n * " "
RECURSIVE Spaces(_)
Spaces(n) == IF n <= 0 THEN <<>> ELSE <<" ">> \o Spaces(n - 1)

Whitespace == {" ", "\t", "\n"}

RECURSIVE Lstrip(_)
Lstrip(s) ==
    IF s # <<>> /\ s[1] \in Whitespace THEN Lstrip(Tail(s)) ELSE s

RECURSIVE Rstrip(_)
Rstrip(s) ==
    IF s # <<>> /\ s[Len(s)] \in Whitespace
    THEN Rstrip(SubSeq(s, 1, Len(s) - 1)) ELSE s

\* source[a:b] with 0-based offsets, as Python slices.
Slice(s, a, b) == SubSeq(s, a + 1, IF b > Len(s) THEN Len(s) ELSE b)

-----------------------------------------------------------------------------
(* The model values: argument references and parsed specs. *)

RESULT_TOKEN == <<"r", "e", "t", "u", "r", "n">>

RootArgumentRef(argument_name) ==
    [kind |-> "Root", argument_name |-> argument_name]

AttributeArgumentRef(source, attribute_name) ==
    [kind |-> "Attribute", source |-> source, attribute_name |-> attribute_name]

IndexArgumentRef(source, index) ==
    [kind |-> "Index", source |-> source, index |-> index]

RECURSIVE root_argument_name(_)
root_argument_name(ref) ==
    IF ref.kind = "Root" THEN ref.argument_name ELSE root_argument_name(ref.source)

\* repr(argument_ref): the display form of a reference.
RECURSIVE ReprRef(_)
ReprRef(ref) ==
    IF ref.kind = "Root" THEN ref.argument_name
    ELSE IF ref.kind = "Attribute"
    THEN ReprRef(ref.source) \o <<".">> \o ref.attribute_name
    ELSE ReprRef(ref.source) \o <<"[">> \o StrOfInt(ref.index) \o <<"]">>

ParsedDimensionSpec(constant, variable_name, variable_rank) ==
    [constant |-> constant, variable_name |-> variable_name,
     variable_rank |-> variable_rank]

ParsedShapeSpec(dims) == [dims |-> dims]

ParsedArgumentSpec(argument_ref, shape) ==
    [argument_ref |-> argument_ref, shape |-> shape]

\* The outcome of a failed `assert`.
AssertionError == [raised |-> "AssertionError"]

-----------------------------------------------------------------------------
(* Parse trees.  A tree node is given by its rule name and the two views   *)
(* the code takes of its children: the token values and the sub-trees.     *)

Node(data, tokens, trees) == [data |-> data, tokens |-> tokens, trees |-> trees]

_token_children(t) == t.tokens

_tree_children(t) == t.trees

-----------------------------------------------------------------------------
(* _ParseArgumentSpec: the argument-spec model builder. *)

argument_name(t) == RootArgumentRef(_token_children(t)[1])

AttributeOnRootMutant(t, source) ==
    AttributeArgumentRef(RootArgumentRef(root_argument_name(source)),
                         _token_children(t)[1])

argument_ref_attribute(t, source) ==
    AttributeArgumentRef(source, _token_children(t)[1])

argument_ref_index(t, source) ==
    IndexArgumentRef(source, IntOfStr(_token_children(t)[1]))

\* _TreeVisitor.visit on a child of the reference chain.
VisitArgumentRef(t, source) ==
    CASE t.data = "argument_ref_attribute" -> argument_ref_attribute(t, source)
      [] t.data = "argument_ref_index" -> argument_ref_index(t, source)
      [] OTHER -> AssertionError

RECURSIVE FoldArgumentRefs(_, _, _)
FoldArgumentRefs(children, i, result) ==
    IF i > Len(children) \/ result = AssertionError THEN result
    ELSE FoldArgumentRefs(children, i + 1, VisitArgumentRef(children[i], result))

argument_refs(t, result) == FoldArgumentRefs(_tree_children(t), 1, result)

dimension_spec_constant(t) ==
    ParsedDimensionSpec(Some(IntOfStr(_token_children(t)[1])), None, FALSE)

dimension_spec_variable(t) ==
    ParsedDimensionSpec(None, Some(_token_children(t)[1]), FALSE)

dimension_spec_anonymous(t) == ParsedDimensionSpec(None, None, FALSE)

VariableRankMutant(t) ==
    LET token1 == _token_children(t)[1]
        token2 == _token_children(t)[2]
    IN  IF token1 = <<"*">>
        THEN ParsedDimensionSpec(None, Some(token1), TRUE)
        ELSE ParsedDimensionSpec(None, Some(token2), TRUE)

dimension_spec_variable_rank(t) ==
    LET token1 == _token_children(t)[1]
        token2 == _token_children(t)[2]
    IN  IF token1 = <<"*">>
        THEN ParsedDimensionSpec(None, Some(token2), TRUE)
        ELSE IF token2 = <<".", ".", ".">>
             THEN ParsedDimensionSpec(None, Some(token1), TRUE)
             ELSE AssertionError

dimension_spec_anonymous_variable_rank(t) == ParsedDimensionSpec(None, None, TRUE)

\* _TreeVisitor.visit on a child of the dimension-specs node.
VisitDimensionSpec(t) ==
    CASE t.data = "dimension_spec_constant" -> dimension_spec_constant(t)
      [] t.data = "dimension_spec_variable" -> dimension_spec_variable(t)
      [] t.data = "dimension_spec_anonymous" -> dimension_spec_anonymous(t)
      [] t.data = "dimension_spec_variable_rank" -> dimension_spec_variable_rank(t)
      [] t.data = "dimension_spec_anonymous_variable_rank"
            -> dimension_spec_anonymous_variable_rank(t)
      [] OTHER -> AssertionError

dimension_specs(t) ==
    [i \in 1..Len(_tree_children(t)) |-> VisitDimensionSpec(_tree_children(t)[i])]

\* An assertion failing in a child visit propagates out of every enclosing visit.
shape_spec(t, argument_ref) ==
    LET dims == dimension_specs(_tree_children(t)[1])
    IN  IF \E i \in 1..Len(dims) : dims[i] = AssertionError
        THEN AssertionError ELSE ParsedShapeSpec(dims)

argument_spec(t) ==
    LET root_argument_ref == argument_name(_tree_children(t)[1])
        argument_ref == argument_refs(_tree_children(t)[2], root_argument_ref)
        shape == shape_spec(_tree_children(t)[3], argument_ref)
    IN  IF argument_ref = AssertionError \/ shape = AssertionError
        THEN AssertionError
        ELSE ParsedArgumentSpec(argument_ref, shape)

-----------------------------------------------------------------------------
(* Parse trees of the argument-spec grammar that the builder is run on.    *)

SeqsUpTo(S, n) == UNION {[1..k -> S] : k \in 0..n}

ArgumentNameTokens == {<<"a">>, <<"x">>}

ArgumentRefNodes ==
    {Node("argument_ref_attribute", <<<<"b">>>>, <<>>),
     Node("argument_ref_index", <<<<"2">>>>, <<>>),
     Node("argument_ref_index", <<<<"-", "1">>>>, <<>>)}

Batch == <<"b", "a", "t", "c", "h">>
Star == <<"*">>
Ellipsis == <<".", ".", ".">>

DimensionSpecNodes ==
    {Node("dimension_spec_constant", <<<<"3">>>>, <<>>),
     Node("dimension_spec_constant", <<<<"1", "0">>>>, <<>>),
     Node("dimension_spec_variable", <<<<"n">>>>, <<>>),
     Node("dimension_spec_anonymous", <<>>, <<>>),
     Node("dimension_spec_variable_rank", <<Star, Batch>>, <<>>),
     Node("dimension_spec_variable_rank", <<Batch, Ellipsis>>, <<>>),
     Node("dimension_spec_variable_rank", <<Star, Ellipsis>>, <<>>),
     Node("dimension_spec_variable_rank", <<<<"n">>, <<"m">>>>, <<>>),
     Node("dimension_spec_anonymous_variable_rank", <<>>, <<>>)}

ArgumentSpecTree(name, refs, dims) ==
    Node("argument_spec", <<>>,
         <<Node("argument_name", <<name>>, <<>>),
           Node("argument_refs", <<>>, refs),
           Node("shape_spec", <<>>, <<Node("dimension_specs", <<>>, dims)>>)>>)

ArgumentSpecTrees ==
    {ArgumentSpecTree(name, refs, dims) :
        name \in ArgumentNameTokens,
        refs \in SeqsUpTo(ArgumentRefNodes, MaxHops),
        dims \in SeqsUpTo(DimensionSpecNodes, MaxDims)}

\* The children the running builder iterates over.
RefChildren == _tree_children(_tree_children(tree)[2])
DimChildren == _tree_children(_tree_children(_tree_children(tree)[3])[1])

-----------------------------------------------------------------------------
(* The builder run step by step: one action per visited node.              *)

Idle ==
    /\ argument_spec_cache = <<>>
    /\ sphinx_docstring_cache = <<>>
    /\ rewrite_docstrings = "NONE"
    /\ last = <<>>

IdleUnchanged ==
    UNCHANGED <<argument_spec_cache, sphinx_docstring_cache, rewrite_docstrings, last>>

BuildInit ==
    /\ pc = "argument_spec"
    /\ tree \in ArgumentSpecTrees
    /\ acc = <<>>
    /\ idx = 0
    /\ aux = <<>>
    /\ ret = <<>>
    /\ Idle

VisitArgumentName ==
    /\ pc = "argument_spec"
    /\ acc' = [ref |-> argument_name(_tree_children(tree)[1]), dims |-> <<>>]
    /\ idx' = 1
    /\ pc' = "argument_refs"
    /\ UNCHANGED <<tree, aux, ret>>
    /\ IdleUnchanged

VisitArgumentRefAttribute ==
    /\ pc = "argument_refs"
    /\ idx <= Len(RefChildren)
    /\ RefChildren[idx].data = "argument_ref_attribute"
    /\ acc' = [acc EXCEPT !.ref = argument_ref_attribute(RefChildren[idx], acc.ref)]
    /\ idx' = idx + 1
    /\ UNCHANGED <<pc, tree, aux, ret>>
    /\ IdleUnchanged

VisitArgumentRefIndex ==
    /\ pc = "argument_refs"
    /\ idx <= Len(RefChildren)
    /\ RefChildren[idx].data = "argument_ref_index"
    /\ acc' = [acc EXCEPT !.ref = argument_ref_index(RefChildren[idx], acc.ref)]
    /\ idx' = idx + 1
    /\ UNCHANGED <<pc, tree, aux, ret>>
    /\ IdleUnchanged

VisitShapeSpec ==
    /\ pc = "argument_refs"
    /\ idx > Len(RefChildren)
    /\ pc' = "dimension_specs"
    /\ idx' = 1
    /\ UNCHANGED <<tree, acc, aux, ret>>
    /\ IdleUnchanged

\* One element of the tuple dimension_specs builds; a failed assertion ends the run.
VisitDimension(kind) ==
    /\ pc = "dimension_specs"
    /\ idx <= Len(DimChildren)
    /\ DimChildren[idx].data = kind
    /\ LET dim == VisitDimensionSpec(DimChildren[idx])
       IN  IF dim = AssertionError
           THEN /\ pc' = "AssertionError"
                /\ UNCHANGED <<acc, idx>>
           ELSE /\ acc' = [acc EXCEPT !.dims = Append(acc.dims, dim)]
                /\ idx' = idx + 1
                /\ pc' = pc
    /\ UNCHANGED <<tree, aux, ret>>
    /\ IdleUnchanged

VisitDimensionConstant == VisitDimension("dimension_spec_constant")
VisitDimensionVariable == VisitDimension("dimension_spec_variable")
VisitDimensionAnonymous == VisitDimension("dimension_spec_anonymous")
VisitDimensionVariableRank == VisitDimension("dimension_spec_variable_rank")
VisitDimensionAnonymousVariableRank ==
    VisitDimension("dimension_spec_anonymous_variable_rank")

ReturnArgumentSpec ==
    /\ pc = "dimension_specs"
    /\ idx > Len(DimChildren)
    /\ ret' = ParsedArgumentSpec(acc.ref, ParsedShapeSpec(acc.dims))
    /\ pc' = "done"
    /\ UNCHANGED <<tree, acc, idx, aux>>
    /\ IdleUnchanged

BuildNext ==
    \/ VisitArgumentName
    \/ VisitArgumentRefAttribute
    \/ VisitArgumentRefIndex
    \/ VisitShapeSpec
    \/ VisitDimensionConstant
    \/ VisitDimensionVariable
    \/ VisitDimensionAnonymous
    \/ VisitDimensionVariableRank
    \/ VisitDimensionAnonymousVariableRank
    \/ ReturnArgumentSpec

SpecBuild == BuildInit /\ [][BuildNext]_vars

-----------------------------------------------------------------------------
(* Claims about the builder. *)

\* The wrappers of a reference, listed from the one next to the Root outwards.
RECURSIVE WrappersOf(_)
WrappersOf(ref) ==
    IF ref.kind = "Root" THEN <<>> ELSE Append(WrappersOf(ref.source), ref)

\* The number of Root nodes on the chain of a reference.
RECURSIVE RootCount(_)
RootCount(ref) ==
    IF ref.kind = "Root" THEN 1
    ELSE IF ref.kind \in {"Attribute", "Index"} THEN RootCount(ref.source)
    ELSE 0

\* The k-th wrapper is the one the k-th child of the chain node asks for.
WrapperMatches(w, child) ==
    \/ /\ child.data = "argument_ref_attribute"
       /\ w.kind = "Attribute"
       /\ w.attribute_name = child.tokens[1]
    \/ /\ child.data = "argument_ref_index"
       /\ w.kind = "Index"
       /\ \/ child.tokens[1] = <<"2">> /\ w.index = 2
          \/ child.tokens[1] = <<"-", "1">> /\ w.index = 0 - 1

\* The number of chain children folded so far.
RefsFolded == IF pc = "argument_refs" THEN idx - 1 ELSE Len(RefChildren)

TreeOf_a_b_2 ==
    /\ _token_children(_tree_children(tree)[1]) = <<<<"a">>>>
    /\ RefChildren = <<Node("argument_ref_attribute", <<<<"b">>>>, <<>>),
                       Node("argument_ref_index", <<<<"2">>>>, <<>>)>>

\* C7: the reference chain is folded left to right over the Root built from the
\* argument-name token: after k children the k-th wrapper from the Root is the
\* k-th hop (Attribute of the identifier token, Index of the signed integer
\* token), the last hop is outermost, the chain holds exactly one Root and
\* root_argument_name is the argument-name token; 'a.b[2]' gives
\* Index(2, Attribute('b', Root('a'))).
C7_ChainFoldedLeftToRight ==
    pc \in {"argument_refs", "dimension_specs", "done", "AssertionError"} =>
        LET ref == IF pc = "done" THEN ret.argument_ref ELSE acc.ref
            ws == WrappersOf(ref)
        IN  /\ Len(ws) = RefsFolded
            /\ \A k \in 1..Len(ws) : WrapperMatches(ws[k], RefChildren[k])
            /\ RefsFolded > 0 => ref = ws[Len(ws)]
            /\ RootCount(ref) = 1
            /\ root_argument_name(ref) = _token_children(_tree_children(tree)[1])[1]
            /\ (TreeOf_a_b_2 /\ RefsFolded = 2) =>
                   /\ ref = IndexArgumentRef(
                              AttributeArgumentRef(RootArgumentRef(<<"a">>), <<"b">>), 2)
                   /\ root_argument_name(ref) = <<"a">>

C7_Witness ==
    /\ pc = "done"
    /\ TreeOf_a_b_2
    /\ ret.argument_ref.kind = "Index"

IsConstant(d) == d.constant # None
IsNamed(d) == d.variable_name # None
IsAnonymous(d) == d.constant = None /\ d.variable_name = None

\* C8: every DimensionSpec the builder produces is in exactly one of the states
\* constant / named / anonymous, a constant one is never variable-rank, and a
\* variable-rank node with two tokens is named by the token that is not the
\* marker ('*' first, else '...' second).
C8_DimensionSpecStates ==
    pc \in {"dimension_specs", "done", "AssertionError"} =>
        \A i \in 1..Len(acc.dims) :
            LET d == acc.dims[i]
                node == DimChildren[i]
            IN  /\ Cardinality({s \in {"constant", "named", "anonymous"} :
                        \/ s = "constant" /\ IsConstant(d)
                        \/ s = "named" /\ IsNamed(d)
                        \/ s = "anonymous" /\ IsAnonymous(d)}) = 1
                /\ IsConstant(d) => d.variable_rank = FALSE
                /\ node.data = "dimension_spec_variable_rank" =>
                      /\ d.variable_rank = TRUE
                      /\ IF node.tokens[1] = Star
                         THEN d.variable_name = Some(node.tokens[2])
                         ELSE /\ node.tokens[2] = Ellipsis
                              /\ d.variable_name = Some(node.tokens[1])

C8_Witness ==
    /\ pc = "done"
    /\ Len(acc.dims) = 2
    /\ DimChildren[1] = Node("dimension_spec_variable_rank", <<Star, Batch>>, <<>>)
    /\ DimChildren[2] = Node("dimension_spec_variable_rank", <<Batch, Ellipsis>>, <<>>)
    /\ acc.dims[1] = acc.dims[2]
    /\ acc.dims[1].variable_name = Some(Batch)

-----------------------------------------------------------------------------
(* _RewritedocString._shape_spec_to_sphinx: rendering of a shape.          *)

DimSwappedDotsMutant(dim) ==
    IF dim.constant # None THEN StrOfInt(dim.constant[1])
    ELSE IF dim.variable_name # None
    THEN <<"*">> \o dim.variable_name[1] \o <<"*">>
            \o (IF dim.variable_rank THEN <<".", ".", ".">> ELSE <<>>)
    ELSE IF dim.variable_rank THEN <<".">> ELSE <<".", ".", ".">>

\* The body of the loop over shape_spec.dims: the text appended for one dim.
DimToSphinx(dim) ==
    IF dim.constant # None THEN StrOfInt(dim.constant[1])
    ELSE IF dim.variable_name # None
    THEN <<"*">> \o dim.variable_name[1] \o <<"*">>
            \o (IF dim.variable_rank THEN <<".", ".", ".">> ELSE <<>>)
    ELSE IF dim.variable_rank THEN <<".", ".", ".">> ELSE <<".">>

_shape_spec_to_sphinx(shape) ==
    JoinWith(<<",", " ">>, [i \in 1..Len(shape.dims) |-> DimToSphinx(shape.dims[i])])

\* The DimensionSpec values the builder can produce, over a few tokens.
DimensionSpecs ==
    {ParsedDimensionSpec(Some(c), None, FALSE) : c \in {0, 3, 10}}
    \cup {ParsedDimensionSpec(None, Some(n), r) :
            n \in {Batch, <<"n">>}, r \in BOOLEAN}
    \cup {ParsedDimensionSpec(None, None, r) : r \in BOOLEAN}

RenderInit ==
    /\ pc = "render"
    /\ tree \in {ParsedShapeSpec(dims) : dims \in SeqsUpTo(DimensionSpecs, MaxRenderDims)}
    /\ acc = <<>>
    /\ idx = 1
    /\ aux = <<>>
    /\ ret = <<>>
    /\ Idle

RenderStep(branch) ==
    /\ pc = "render"
    /\ idx <= Len(tree.dims)
    /\ LET dim == tree.dims[idx]
       IN  /\ branch = (IF dim.constant # None THEN "constant"
                        ELSE IF dim.variable_name # None THEN "variable"
                        ELSE "anonymous")
           /\ acc' = Append(acc, DimToSphinx(dim))
    /\ idx' = idx + 1
    /\ UNCHANGED <<pc, tree, aux, ret>>
    /\ IdleUnchanged

RenderConstant == RenderStep("constant")
RenderVariable == RenderStep("variable")
RenderAnonymous == RenderStep("anonymous")

RenderJoin ==
    /\ pc = "render"
    /\ idx > Len(tree.dims)
    /\ ret' = JoinWith(<<",", " ">>, acc)
    /\ pc' = "done"
    /\ UNCHANGED <<tree, acc, idx, aux>>
    /\ IdleUnchanged

RenderNext == RenderConstant \/ RenderVariable \/ RenderAnonymous \/ RenderJoin

SpecRender == RenderInit /\ [][RenderNext]_vars

\* The rendering the documentation gives for one dimension.
DocumentedDim(d) ==
    CASE d.constant = Some(0) -> <<"0">>
      [] d.constant = Some(3) -> <<"3">>
      [] d.constant = Some(10) -> <<"1", "0">>
      [] d.constant = None /\ d.variable_name # None /\ ~d.variable_rank
            -> <<"*">> \o d.variable_name[1] \o <<"*">>
      [] d.constant = None /\ d.variable_name # None /\ d.variable_rank
            -> <<"*">> \o d.variable_name[1] \o <<"*", ".", ".", ".">>
      [] d.constant = None /\ d.variable_name = None /\ ~d.variable_rank -> <<".">>
      [] d.constant = None /\ d.variable_name = None /\ d.variable_rank
            -> <<".", ".", ".">>

ExampleShape ==
    ParsedShapeSpec(<<ParsedDimensionSpec(Some(3), None, FALSE),
                      ParsedDimensionSpec(None, Some(Batch), TRUE),
                      ParsedDimensionSpec(None, None, FALSE)>>)

\* C6: a shape renders as its dimensions' renderings in axis order, separated
\* by a comma and a space: constant -> digits, named -> *name*, named
\* variable-rank -> *name*..., anonymous -> '.', anonymous variable-rank ->
\* '...'; [3, batch..., .] renders as exactly '3, *batch*..., .'.
C6_ShapeRendering ==
    pc = "done" =>
        /\ ret = Concat([i \in 1..Len(tree.dims) |->
                    (IF i > 1 THEN <<",", " ">> ELSE <<>>) \o DocumentedDim(tree.dims[i])])
        /\ ret = _shape_spec_to_sphinx(tree)
        /\ tree = ExampleShape =>
              ret = <<"3", ",", " ", "*", "b", "a", "t", "c", "h", "*", ".", ".", ".",
                      ",", " ", ".">>

C6_Witness ==
    /\ pc = "done"
    /\ tree = ExampleShape
    /\ Len(ret) = 16

-----------------------------------------------------------------------------
(* _create_terminal_descriptions: the table of terminal descriptions.      *)

Terminal(name, type, value) ==
    [name |-> name, pattern |-> [type |-> type, value |-> value]]

\* dict.pop(name, None) on `unused`: the dict without the key.
DictWithout(d, name) == [n \in DOMAIN d \ {name} |-> d[n]]

\* The description of one terminal, given the descriptions not yet used.
DescribeTerminal(terminal, re_descriptions, unused) ==
    IF terminal.pattern.type = "PatternStr"
    THEN <<"\"">> \o terminal.pattern.value \o <<"\"">>
    ELSE IF terminal.name \notin DOMAIN unused
         THEN <<"E", "R", "R", "O", "R">>
         ELSE re_descriptions[terminal.name]
                \o <<" ", "(", "r", "e", "=">> \o terminal.pattern.value \o <<")">>

NoMissingCheckMutant(result, unused, missing) ==
    IF DOMAIN unused # {} THEN AssertionError ELSE result

\* The two closing assertions and the return.
CheckedDescriptions(result, unused, missing) ==
    IF DOMAIN unused # {} THEN AssertionError
    ELSE IF missing # {} THEN AssertionError
    ELSE result

RECURSIVE DescribeFrom(_, _, _, _, _, _)
DescribeFrom(terminals, i, re_descriptions, result, unused, missing) ==
    IF i > Len(terminals) THEN CheckedDescriptions(result, unused, missing)
    ELSE LET t == terminals[i]
             isRE == t.pattern.type # "PatternStr"
         IN  DescribeFrom(terminals, i + 1, re_descriptions,
                 (t.name :> DescribeTerminal(t, re_descriptions, unused)) @@ result,
                 IF isRE THEN DictWithout(unused, t.name) ELSE unused,
                 IF isRE /\ t.name \notin DOMAIN unused
                 THEN missing \cup {t.name} ELSE missing)

_create_terminal_descriptions(terminals, re_descriptions) ==
    DescribeFrom(terminals, 1, re_descriptions, <<>>, re_descriptions, {})

\* Terminals a grammar may define, in the order the grammar engine lists them.
TerminalUniverse ==
    <<Terminal("COLON", "PatternStr", <<":">>),
      Terminal("LSQB", "PatternStr", <<"[">>),
      Terminal("CNAME", "PatternRE", <<"[", "a", "-", "z", "]", "+">>),
      Terminal("INT", "PatternRE", <<"[", "0", "-", "9", "]", "+">>),
      Terminal("WS", "PatternRE", <<"[", " ", "]", "+">>)>>

RECURSIVE SubSequences(_)
SubSequences(s) ==
    IF s = <<>> THEN {<<>>}
    ELSE LET rest == SubSequences(Tail(s))
         IN  rest \cup {<<Head(s)>> \o r : r \in rest}

\* Descriptions a caller may supply, by terminal name.
DescriptionUniverse ==
    [CNAME |-> <<"v", "a", "r", "i", "a", "b", "l", "e", " ", "n", "a", "m", "e">>,
     INT |-> <<"i", "n", "t", "e", "g", "e", "r">>,
     WS |-> <<"w", "h", "i", "t", "e", "s", "p", "a", "c", "e">>,
     COLON |-> <<"c", "o", "l", "o", "n">>,
     FLOAT |-> <<"n", "u", "m", "b", "e", "r">>]

TermInit ==
    /\ pc = "terminals"
    /\ tree \in {[terminals |-> ts, re_descriptions |-> [n \in ns |-> DescriptionUniverse[n]]] :
                    ts \in SubSequences(TerminalUniverse),
                    ns \in SUBSET DOMAIN DescriptionUniverse}
    /\ acc = [result |-> <<>>, unused |-> tree.re_descriptions, missing |-> {}]
    /\ idx = 1
    /\ aux = <<>>
    /\ ret = <<>>
    /\ Idle

DescribeLiteral ==
    /\ pc = "terminals"
    /\ idx <= Len(tree.terminals)
    /\ tree.terminals[idx].pattern.type = "PatternStr"
    /\ LET t == tree.terminals[idx]
       IN  acc' = [acc EXCEPT !.result =
                     (t.name :> DescribeTerminal(t, tree.re_descriptions, acc.unused)) @@ @]
    /\ idx' = idx + 1
    /\ UNCHANGED <<pc, tree, aux, ret>>
    /\ IdleUnchanged

DescribePattern ==
    /\ pc = "terminals"
    /\ idx <= Len(tree.terminals)
    /\ tree.terminals[idx].pattern.type = "PatternRE"
    /\ tree.terminals[idx].name \in DOMAIN acc.unused
    /\ LET t == tree.terminals[idx]
       IN  acc' = [acc EXCEPT
                     !.result = (t.name :> DescribeTerminal(t, tree.re_descriptions,
                                                           acc.unused)) @@ @,
                     !.unused = DictWithout(@, t.name)]
    /\ idx' = idx + 1
    /\ UNCHANGED <<pc, tree, aux, ret>>
    /\ IdleUnchanged

DescribeMissing ==
    /\ pc = "terminals"
    /\ idx <= Len(tree.terminals)
    /\ tree.terminals[idx].pattern.type = "PatternRE"
    /\ tree.terminals[idx].name \notin DOMAIN acc.unused
    /\ LET t == tree.terminals[idx]
       IN  acc' = [acc EXCEPT
                     !.result = (t.name :> DescribeTerminal(t, tree.re_descriptions,
                                                           acc.unused)) @@ @,
                     !.missing = @ \cup {t.name}]
    /\ idx' = idx + 1
    /\ UNCHANGED <<pc, tree, aux, ret>>
    /\ IdleUnchanged

AssertAndReturn ==
    /\ pc = "terminals"
    /\ idx > Len(tree.terminals)
    /\ LET checked == CheckedDescriptions(acc.result, acc.unused, acc.missing)
       IN  IF checked = AssertionError
           THEN pc' = "AssertionError" /\ ret' = ret
           ELSE pc' = "done" /\ ret' = checked
    /\ UNCHANGED <<tree, acc, idx, aux>>
    /\ IdleUnchanged

TermNext == DescribeLiteral \/ DescribePattern \/ DescribeMissing \/ AssertAndReturn

SpecTerm == TermInit /\ [][TermNext]_vars

\* `sub` occurs in `s`.
Contains(s, sub) ==
    \E i \in 1..(Len(s) - Len(sub) + 1) : SubSeq(s, i, i + Len(sub) - 1) = sub

PatternTerminalNames ==
    {tree.terminals[i].name : i \in {j \in 1..Len(tree.terminals) :
                                        tree.terminals[j].pattern.type = "PatternRE"}}

\* C9: the construction fails when a description is supplied for a name that is
\* no pattern terminal of the grammar, or a pattern terminal has no description;
\* when it succeeds there is one entry per terminal, a literal is described by
\* the quoted literal and a pattern terminal's description contains the
\* supplied text and is never 'ERROR'.
C9_TerminalDescriptions ==
    /\ pc \in {"done", "AssertionError"} =>
          (pc = "AssertionError" <=>
              \/ DOMAIN tree.re_descriptions \ PatternTerminalNames # {}
              \/ PatternTerminalNames \ DOMAIN tree.re_descriptions # {})
    /\ pc = "done" =>
          /\ DOMAIN ret = {tree.terminals[i].name : i \in 1..Len(tree.terminals)}
          /\ ret = _create_terminal_descriptions(tree.terminals, tree.re_descriptions)
          /\ \A i \in 1..Len(tree.terminals) :
                LET t == tree.terminals[i]
                IN  IF t.pattern.type = "PatternStr"
                    THEN ret[t.name] = <<"\"">> \o t.pattern.value \o <<"\"">>
                    ELSE /\ Contains(ret[t.name], tree.re_descriptions[t.name])
                         /\ ret[t.name] # <<"E", "R", "R", "O", "R">>

C9_Witness ==
    /\ pc = "done"
    /\ Len(tree.terminals) = 5
    /\ DOMAIN tree.re_descriptions = {"CNAME", "INT", "WS"}
    /\ ret["COLON"] = <<"\"", ":", "\"">>
    /\ Contains(ret["INT"], <<"i", "n", "t", "e", "g", "e", "r">>)

-----------------------------------------------------------------------------
(* _RewritedocString: construction (spec lines, indentation).              *)

TabSize == 8

\* str.expandtabs(): a tab becomes spaces up to the next tab stop; the column
\* restarts after a newline.
RECURSIVE ExpandTabsFrom(_, _)
ExpandTabsFrom(s, col) ==
    IF s = <<>> THEN <<>>
    ELSE IF s[1] = "\t"
         THEN Spaces(TabSize - (col % TabSize))
                \o ExpandTabsFrom(Tail(s), col + TabSize - (col % TabSize))
    ELSE IF s[1] = "\n" THEN <<"\n">> \o ExpandTabsFrom(Tail(s), 0)
    ELSE <<s[1]>> \o ExpandTabsFrom(Tail(s), col + 1)

ExpandTabs(s) == ExpandTabsFrom(s, 0)

\* str.splitlines(): the lines without their line ends; no last empty line.
RECURSIVE SplitLinesFrom(_, _)
SplitLinesFrom(s, line) ==
    IF s = <<>> THEN (IF line = <<>> THEN <<>> ELSE <<line>>)
    ELSE IF s[1] = "\n" THEN <<line>> \o SplitLinesFrom(Tail(s), <<>>)
    ELSE SplitLinesFrom(Tail(s), Append(line, s[1]))

SplitLines(s) == SplitLinesFrom(s, <<>>)

\* The loop of _guess_indent over lines[1:], `indent` being None for no_indent.
RECURSIVE MinIndent(_, _, _)
MinIndent(lines, i, indent) ==
    IF i > Len(lines) THEN indent
    ELSE LET stripped == Lstrip(lines[i])
             line_indent == Len(lines[i]) - Len(stripped)
         IN  IF stripped = <<>> THEN MinIndent(lines, i + 1, indent)
             ELSE IF indent = None \/ line_indent < indent[1]
                  THEN MinIndent(lines, i + 1, Some(line_indent))
                  ELSE MinIndent(lines, i + 1, indent)

_guess_indent(docstring) == MinIndent(SplitLines(ExpandTabs(docstring)), 2, None)

_argument_spec_to_sphinx(spec) ==
    <<"*", " ", "*", "*">> \o ReprRef(spec.argument_ref) \o <<"*", "*">>
        \o <<" ", "h", "a", "s", " ", "s", "h", "a", "p", "e", " ", "[">>
        \o _shape_spec_to_sphinx(spec.shape)
        \o <<"]", ".">>

\* list.sort(): stable insertion of each element after the elements not above it.
RECURSIVE InsertSorted(_, _)
InsertSorted(sorted, x) ==
    IF sorted = <<>> THEN <<x>>
    ELSE IF StrLess(x, sorted[1]) THEN <<x>> \o sorted
    ELSE <<sorted[1]>> \o InsertSorted(Tail(sorted), x)

RECURSIVE SortLines(_)
SortLines(lines) ==
    IF lines = <<>> THEN <<>>
    ELSE InsertSorted(SortLines(SubSeq(lines, 1, Len(lines) - 1)), lines[Len(lines)])

\* The rendered lines of the specs rooted at `name`, in the order of the specs.
RECURSIVE LinesOf(_, _)
LinesOf(specs, name) ==
    IF specs = <<>> THEN <<>>
    ELSE (IF root_argument_name(specs[1].argument_ref) = name
          THEN <<_argument_spec_to_sphinx(specs[1])>> ELSE <<>>)
         \o LinesOf(Tail(specs), name)

UnsortedLinesMutant(specs) ==
    [name \in {root_argument_name(specs[i].argument_ref) : i \in 1..Len(specs)} |->
        LinesOf(specs, name)]

\* The mapping from root argument name to its sorted lines.
_argument_specs_to_sphinx(specs) ==
    [name \in {root_argument_name(specs[i].argument_ref) : i \in 1..Len(specs)} |->
        SortLines(LinesOf(specs, name))]

\* self._spec_lines.get(name, None)
SpecLinesGet(spec_lines, name) ==
    IF name \in DOMAIN spec_lines THEN spec_lines[name] ELSE None

-----------------------------------------------------------------------------
(* _RewritedocString: the visit of the docstring tree.                     *)
(*                                                                         *)
(* `out` is the list of appended strings; each is kept with a flag telling *)
(* whether the code took it from self._source.                             *)

Piece(text, original) == [text |-> text, original |-> original]

Self(source, specs) ==
    [source |-> source,
     spec_lines |-> _argument_specs_to_sphinx(specs),
     indent |-> _guess_indent(source)]

ReturnStartPosMutant(self, out, pos, spec_lines, docs) ==
    LET leading_str == Rstrip(Slice(self.source, pos, docs.meta.start_pos))
        docs_start == pos + Len(leading_str)
        docs_str == Slice(self.source, docs_start, docs.meta.end_pos)
        trailing_str == Lstrip(docs_str)
        guessed == _guess_indent(docs_str)
        docs_indent == IF guessed = None
                       THEN (IF self.indent = None THEN 4 ELSE self.indent[1] + 4)
                       ELSE guessed[1]
        indent_str == <<"\n">> \o Spaces(docs_indent)
    IN  [out |-> out \o <<Piece(leading_str, TRUE)>>
                     \o Concat([i \in 1..Len(spec_lines) |->
                                  <<Piece(indent_str, FALSE), Piece(spec_lines[i], FALSE)>>])
                     \o <<Piece(<<"\n">>, FALSE), Piece(indent_str, FALSE),
                          Piece(trailing_str, TRUE)>>,
         pos |-> docs.meta.start_pos]

_insert_spec_lines(self, out, pos, spec_lines, docs) ==
    LET leading_str == Rstrip(Slice(self.source, pos, docs.meta.start_pos))
        docs_start == pos + Len(leading_str)
        docs_str == Slice(self.source, docs_start, docs.meta.end_pos)
        trailing_str == Lstrip(docs_str)
        guessed == _guess_indent(docs_str)
        docs_indent == IF guessed = None
                       THEN (IF self.indent = None THEN 4 ELSE self.indent[1] + 4)
                       ELSE guessed[1]
        indent_str == <<"\n">> \o Spaces(docs_indent)
    IN  [out |-> out \o <<Piece(leading_str, TRUE)>>
                     \o Concat([i \in 1..Len(spec_lines) |->
                                  <<Piece(indent_str, FALSE), Piece(spec_lines[i], FALSE)>>])
                     \o <<Piece(<<"\n">>, FALSE), Piece(indent_str, FALSE),
                          Piece(trailing_str, TRUE)>>,
         pos |-> docs.meta.end_pos]

info_field_args(t) ==
    LET tokens == _token_children(t)
    IN  IF tokens = <<>> THEN <<>> ELSE tokens[Len(tokens)]

InsertAlwaysMutant(self, t, out, pos) ==
    LET docs == _tree_children(t)[2]
        arg_name == info_field_args(_tree_children(t)[1])
        spec_lines == SpecLinesGet(self.spec_lines, arg_name)
    IN  _insert_spec_lines(self, out, pos, spec_lines, docs)

info_field_param(self, t, out, pos) ==
    LET docs == _tree_children(t)[2]
        arg_name == info_field_args(_tree_children(t)[1])
        spec_lines == SpecLinesGet(self.spec_lines, arg_name)
    IN  IF spec_lines # <<>>
        THEN _insert_spec_lines(self, out, pos, spec_lines, docs)
        ELSE [out |-> out, pos |-> pos]

info_field_returns(self, t, out, pos) ==
    LET docs == _tree_children(t)[1]
        spec_lines == SpecLinesGet(self.spec_lines, RESULT_TOKEN)
    IN  IF spec_lines # <<>>
        THEN _insert_spec_lines(self, out, pos, spec_lines, docs)
        ELSE [out |-> out, pos |-> pos]

info_field_other(self, t, out, pos) == [out |-> out, pos |-> pos]

\* _TreeVisitor.visit on a child of the info-fields node.
VisitInfoField(self, t, out, pos) ==
    CASE t.data = "info_field_param" -> info_field_param(self, t, out, pos)
      [] t.data = "info_field_returns" -> info_field_returns(self, t, out, pos)
      [] t.data = "info_field_other" -> info_field_other(self, t, out, pos)
      [] OTHER -> AssertionError

RECURSIVE InfoFieldsFrom(_, _, _, _, _)
InfoFieldsFrom(self, children, i, out, pos) ==
    IF i > Len(children) THEN [out |-> out, pos |-> pos]
    ELSE LET r == VisitInfoField(self, children[i], out, pos)
         IN  InfoFieldsFrom(self, children, i + 1, r.out, r.pos)

info_fields(self, t, out, pos) == InfoFieldsFrom(self, _tree_children(t), 1, out, pos)

\* "".join(out)
JoinOut(out) == Concat([i \in 1..Len(out) |-> out[i].text])

docstring(self, t) ==
    LET r == info_fields(self, _tree_children(t)[2], <<>>, 0)
    IN  JoinOut(r.out \o <<Piece(Slice(self.source, r.pos, Len(self.source)), TRUE)>>)

\* _RewritedocString(docstring, argument_specs).visit(tree)
RewriteDocstring(source, specs, t) == docstring(Self(source, specs), t)

-----------------------------------------------------------------------------
(* Documentation texts and their parse trees.  A text is a header followed *)
(* by info fields; a field is its marker, a whitespace run and its         *)
(* documentation text.  The docs node of a field ends at the end of the    *)
(* field and starts `lead` characters into the whitespace run.             *)

DocsNode(start_pos, end_pos) ==
    [data |-> "docs", tokens |-> <<>>, trees |-> <<>>,
     meta |-> [start_pos |-> start_pos, end_pos |-> end_pos]]

Field(data, marker, args, ws, body, lead) ==
    [data |-> data, marker |-> marker, args |-> args, ws |-> ws, body |-> body,
     lead |-> lead]

ParamX == <<":", "p", "a", "r", "a", "m", " ", "x", ":">>
ParamIntX == <<":", "p", "a", "r", "a", "m", " ", "i", "n", "t", " ", "x", ":">>
ParamY == <<":", "p", "a", "r", "a", "m", " ", "y", ":">>
Returns == <<":", "r", "e", "t", "u", "r", "n", "s", ":">>
Rtype == <<":", "r", "t", "y", "p", "e", ":">>

Fields ==
    {Field("info_field_param", ParamX, <<<<"x">>>>, <<" ">>, <<"i", "n", "\n">>, 1),
     Field("info_field_param", ParamX, <<<<"x">>>>,
           <<"\n", " ", " ", " ", " ", " ", " ">>, <<"i", "n", "\n">>, 0),
     Field("info_field_param", ParamIntX, <<<<"i", "n", "t">>, <<"x">>>>, <<" ">>,
           <<"i", "n", "\n", "\t", "m", "\n", " ", " ">>, 0),
     Field("info_field_param", ParamY, <<<<"y">>>>, <<" ">>, <<"i", "n", "\n">>, 1),
     Field("info_field_returns", Returns, <<>>, <<" ", " ">>, <<"o", "u", "t", "\n">>, 1),
     Field("info_field_other", Rtype, <<>>, <<" ">>, <<"T", "\n", " ", " ">>, 0),
     Field("info_field_param", ParamX, <<<<"x">>>>, <<"\n", " ", " ", " ">>,
           <<"i", "n", "\n">>, 1),
     Field("info_field_returns", Returns, <<>>, <<>>, <<"o", "u", "t">>, 0)}

Headers == {<<>>, <<"D", ".", "\n">>, <<"D", ".", "\n", "\n", " ", " ">>}

FieldText(f) == f.marker \o f.ws \o f.body

RECURSIVE FieldsText(_)
FieldsText(fields) ==
    IF fields = <<>> THEN <<>> ELSE FieldText(fields[1]) \o FieldsText(Tail(fields))

\* The offset at which the i-th field starts.
FieldStart(header, fields, i) == Len(header) + Len(FieldsText(SubSeq(fields, 1, i - 1)))

FieldNode(header, fields, i) ==
    LET f == fields[i]
        start == FieldStart(header, fields, i)
        docs == DocsNode(start + Len(f.marker) + f.lead, start + Len(FieldText(f)))
    IN  IF f.data = "info_field_returns" THEN Node(f.data, <<>>, <<docs>>)
        ELSE Node(f.data, <<>>, <<Node("info_field_args", f.args, <<>>), docs>>)

DocstringTree(header, fields) ==
    Node("docstring", <<>>,
         <<DocsNode(0, Len(header)),
           Node("info_fields", <<>>,
                [i \in 1..Len(fields) |-> FieldNode(header, fields, i)])>>)

SpecX3 ==
    ParsedArgumentSpec(RootArgumentRef(<<"x">>),
        ParsedShapeSpec(<<ParsedDimensionSpec(Some(3), None, FALSE)>>))
SpecXb ==
    ParsedArgumentSpec(AttributeArgumentRef(RootArgumentRef(<<"x">>), <<"b">>),
        ParsedShapeSpec(<<ParsedDimensionSpec(None, Some(<<"n">>), FALSE)>>))
SpecReturn ==
    ParsedArgumentSpec(RootArgumentRef(RESULT_TOKEN),
        ParsedShapeSpec(<<ParsedDimensionSpec(None, Some(<<"n">>), TRUE),
                          ParsedDimensionSpec(Some(3), None, FALSE)>>))

ArgumentSpecs == {SpecX3, SpecXb, SpecReturn}

Docstring(header, fields, specs) ==
    [source |-> header \o FieldsText(fields),
     root |-> DocstringTree(header, fields),
     specs |-> specs,
     header |-> header,
     fields |-> fields]

InfoFieldChildren == _tree_children(_tree_children(tree.root)[2])

RewriteInit ==
    /\ pc = "construct"
    /\ tree \in {Docstring(h, fs, specs) :
                    h \in Headers,
                    fs \in SeqsUpTo(Fields, MaxFields),
                    specs \in SeqsUpTo(ArgumentSpecs, MaxSpecs)}
    /\ acc = <<>>
    /\ idx = 0
    /\ aux = <<>>
    /\ ret = <<>>
    /\ Idle

\* _RewritedocString.__init__ and the first lines of docstring().
RewriteConstruct ==
    /\ pc = "construct"
    /\ aux' = [self |-> Self(tree.source, tree.specs), pos |-> 0]
    /\ acc' = <<>>
    /\ idx' = 1
    /\ pc' = "info_fields"
    /\ UNCHANGED <<tree, ret>>
    /\ IdleUnchanged

VisitField(kind) ==
    /\ pc = "info_fields"
    /\ idx <= Len(InfoFieldChildren)
    /\ InfoFieldChildren[idx].data = kind
    /\ LET r == VisitInfoField(aux.self, InfoFieldChildren[idx], acc, aux.pos)
       IN  /\ acc' = r.out
           /\ aux' = [aux EXCEPT !.pos = r.pos]
    /\ idx' = idx + 1
    /\ UNCHANGED <<pc, tree, ret>>
    /\ IdleUnchanged

VisitInfoFieldParam == VisitField("info_field_param")
VisitInfoFieldReturns == VisitField("info_field_returns")
VisitInfoFieldOther == VisitField("info_field_other")

\* The last lines of docstring(): the rest of the source, and the join.
RewriteJoin ==
    /\ pc = "info_fields"
    /\ idx > Len(InfoFieldChildren)
    /\ acc' = Append(acc, Piece(Slice(tree.source, aux.pos, Len(tree.source)), TRUE))
    /\ ret' = JoinOut(acc')
    /\ pc' = "done"
    /\ UNCHANGED <<tree, idx, aux>>
    /\ IdleUnchanged

RewriteNext ==
    \/ RewriteConstruct
    \/ VisitInfoFieldParam
    \/ VisitInfoFieldReturns
    \/ VisitInfoFieldOther
    \/ RewriteJoin

SpecRewrite == RewriteInit /\ [][RewriteNext]_vars

-----------------------------------------------------------------------------
(* Claims about the rewriter. *)

\* The name a field's lines are looked up by: the last argument token of a
\* parameter field, the result token of a returns field.
FieldKey(f) ==
    IF f.data = "info_field_returns" THEN RESULT_TOKEN
    ELSE IF f.args = <<>> THEN <<>> ELSE f.args[Len(f.args)]

SpecsRootedAt(name) ==
    {i \in 1..Len(tree.specs) : root_argument_name(tree.specs[i].argument_ref) = name}

\* The field has rendered lines: it names a constrained argument or result.
FieldMatches(f) ==
    /\ f.data \in {"info_field_param", "info_field_returns"}
    /\ SpecsRootedAt(FieldKey(f)) # {}

NoFieldMatches == \A i \in 1..Len(tree.fields) : ~FieldMatches(tree.fields[i])

\* C1: when no parameter field names a constrained root argument and no returns
\* field exists while the result token is constrained, the rewriter returns the
\* input text character for character.
C1_NoMatchIsIdentity ==
    (pc = "done" /\ NoFieldMatches) => ret = tree.source

C1_Witness ==
    /\ pc = "done"
    /\ NoFieldMatches
    /\ Len(tree.specs) > 0
    /\ Len(tree.fields) = 2
    /\ tree.fields[1].data = "info_field_param"
    /\ tree.fields[2].data = "info_field_returns"
    /\ ret = tree.source

\* The characters of the output that the code took from the source.
OriginalKept ==
    Concat([i \in 1..Len(acc) |-> IF acc[i].original THEN acc[i].text ELSE <<>>])

RECURSIVE SourceWithoutRewrittenRuns(_)
SourceWithoutRewrittenRuns(fields) ==
    IF fields = <<>> THEN <<>>
    ELSE LET f == fields[1]
         IN  f.marker \o (IF FieldMatches(f) THEN <<>> ELSE f.ws) \o f.body
                \o SourceWithoutRewrittenRuns(Tail(fields))

IsOrdered(lines) ==
    \A i \in 1..(Len(lines) - 1) : ~StrLess(lines[i + 1], lines[i])

DocumentedLines(name) ==
    LET group == [i \in SpecsRootedAt(name) |-> _argument_spec_to_sphinx(tree.specs[i])]
        rendered == {group[i] : i \in DOMAIN group}
    IN  CHOOSE lines \in [1..Cardinality(DOMAIN group) -> rendered] :
            /\ IsOrdered(lines)
            /\ \A l \in rendered :
                  Cardinality({i \in DOMAIN lines : lines[i] = l})
                      = Cardinality({i \in DOMAIN group : group[i] = l})

\* The indentation of a field's inserted lines.
DocumentedIndent(f) ==
    LET own == _guess_indent(f.ws \o f.body)
        base == _guess_indent(tree.source)
    IN  IF own # None THEN own[1]
        ELSE IF base # None THEN base[1] + 4
        ELSE 4

RECURSIVE DocumentedFields(_)
DocumentedFields(fields) ==
    IF fields = <<>> THEN <<>>
    ELSE LET f == fields[1]
             lines == DocumentedLines(FieldKey(f))
             indent == <<"\n">> \o Spaces(DocumentedIndent(f))
         IN  (IF FieldMatches(f)
              THEN f.marker
                     \o Concat([i \in 1..Len(lines) |-> indent \o lines[i]])
                     \o <<"\n">> \o indent \o f.body
              ELSE f.marker \o f.ws \o f.body)
             \o DocumentedFields(Tail(fields))

\* C5: for every parameter or returns field with rendered lines, all lines of
\* the group are inserted in lexicographic order, each on its own line, after
\* the field marker and before the field's documentation text (a blank line
\* apart), indented by the indentation detected in the text after the marker,
\* else by the base indentation plus four, else by four; every other field is
\* emitted unaltered.
C5_InsertionPlacement ==
    pc = "done" => ret = tree.header \o DocumentedFields(tree.fields)

C5_Witness ==
    /\ pc = "done"
    /\ tree.header # <<>>
    /\ tree.specs = <<SpecXb, SpecX3>>
    /\ Len(tree.fields) = 2
    /\ tree.fields[1].marker = ParamX
    /\ tree.fields[1].lead = 1
    /\ tree.fields[2].data = "info_field_returns"
    /\ aux.self.spec_lines[<<"x">>] =
          <<_argument_spec_to_sphinx(SpecX3), _argument_spec_to_sphinx(SpecXb)>>
    /\ ret # tree.source

-----------------------------------------------------------------------------
(* The grammar engine, as the entry points use it: a text either has a     *)
(* parse tree or is rejected with UnexpectedInput.                         *)

UnexpectedInput == [raised |-> "UnexpectedInput"]

Text_x_3 == <<"x", ":", " ", "[", "3", "]">>
Text_a_b_2 == <<"a", ".", "b", "[", "2", "]", ":", " ", "[", "n", "]">>
Text_return == <<"r", "e", "t", "u", "r", "n", ":", " ", "[", "*", "n", ",", " ", ".", "]">>
Text_unterminated == <<"x", ":", " ", "[">>
Text_no_shape == <<"x">>

\* The argument-spec texts the grammar accepts, with their trees.
ArgumentSpecParses ==
    {[text |-> Text_x_3,
      tree |-> ArgumentSpecTree(<<"x">>, <<>>,
                  <<Node("dimension_spec_constant", <<<<"3">>>>, <<>>)>>)],
     [text |-> Text_a_b_2,
      tree |-> ArgumentSpecTree(<<"a">>,
                  <<Node("argument_ref_attribute", <<<<"b">>>>, <<>>),
                    Node("argument_ref_index", <<<<"2">>>>, <<>>)>>,
                  <<Node("dimension_spec_variable", <<<<"n">>>>, <<>>)>>)],
     [text |-> Text_return,
      tree |-> ArgumentSpecTree(RESULT_TOKEN, <<>>,
                  <<Node("dimension_spec_variable_rank", <<Star, <<"n">>>>, <<>>),
                    Node("dimension_spec_anonymous", <<>>, <<>>)>>)]}

ArgumentSpecTexts ==
    {p.text : p \in ArgumentSpecParses} \cup {Text_unterminated, Text_no_shape}

\* _ARGUMENT_SPEC_PARSER.parse(text)
ArgumentSpecParserParse(text) ==
    IF \E p \in ArgumentSpecParses : p.text = text
    THEN (CHOOSE p \in ArgumentSpecParses : p.text = text).tree
    ELSE UnexpectedInput

FieldXInline == Field("info_field_param", ParamX, <<<<"x">>>>, <<" ">>, <<"i", "n", "\n">>, 1)
FieldReturns ==
    Field("info_field_returns", Returns, <<>>, <<" ", " ">>, <<"o", "u", "t", "\n">>, 1)

\* The documentation texts the grammar accepts, with their trees.
DocstringParses ==
    {Docstring(h, fs, <<>>) :
        h \in Headers, fs \in {<<>>, <<FieldXInline>>, <<FieldXInline, FieldReturns>>}}

Text_bad_docstring == <<":", "p", "a", "r", "a", "m", " ", "x">>

\* The documentation a caller may pass: absent, or a text.
Docstrings ==
    {None} \cup {Some(d.source) : d \in DocstringParses} \cup {Some(Text_bad_docstring)}

\* _DOCSTRING_PARSER.parse(text)
DocstringParserParse(text) ==
    IF \E d \in DocstringParses : d.source = text
    THEN (CHOOSE d \in DocstringParses : d.source = text).root
    ELSE UnexpectedInput

ArgumentSpecTuples == {<<>>, <<SpecX3>>, <<SpecXb, SpecX3>>, <<SpecReturn>>}

\* The caller's error context.
Contexts == {"f", "g"}

-----------------------------------------------------------------------------
(* The terminal descriptions of the two grammars. *)

ArgumentSpecTerminals == TerminalUniverse

\* The character U+0060, which a TLA+ string cannot hold.
Backquote == "<backquote>"

_ARGUMENT_SPEC_TERMINAL_DESCRIPTIONS ==
    _create_terminal_descriptions(ArgumentSpecTerminals,
        [CNAME |-> DescriptionUniverse.CNAME,
         INT |-> DescriptionUniverse.INT,
         WS |-> DescriptionUniverse.WS])

DocstringTerminals ==
    <<Terminal("COLON", "PatternStr", <<":">>),
      Terminal("ANY", "PatternRE", <<".">>),
      Terminal("CNAME", "PatternRE", <<"[", "a", "-", "z", "]", "+">>),
      Terminal("INFO_FIELD_OTHER", "PatternRE", <<"r", "t", "y", "p", "e">>),
      Terminal("PARAM", "PatternRE", <<"p", "a", "r", "a", "m">>),
      Terminal("RETURNS", "PatternRE", <<"r", "e", "t", "u", "r", "n", "s">>),
      Terminal("WS", "PatternRE", <<"[", " ", "]", "+">>)>>

_DOCSTRING_TERMINAL_DESCRIPTIONS ==
    _create_terminal_descriptions(DocstringTerminals,
        [ANY |-> <<"a", "n", "y", " ", "t", "e", "x", "t">>,
         CNAME |-> DescriptionUniverse.CNAME,
         INFO_FIELD_OTHER |-> <<"S", "p", "h", "i", "n", "x", " ", "i", "n", "f", "o", " ",
                                "f", "i", "e", "l", "d">>,
         PARAM |-> <<"S", "p", "h", "i", "n", "x", " ", "p", "a", "r", "a", "m", "e", "t",
                     "e", "r", " ", "f", "i", "e", "l", "d">>,
         RETURNS |-> <<"S", "p", "h", "i", "n", "x", " ", Backquote, "r", "e", "t", "u", "r",
                       "n", Backquote, " ", "f", "i", "e", "l", "d">>,
         WS |-> DescriptionUniverse.WS])

-----------------------------------------------------------------------------
(* The entry points.  A call gives its outcome ("return" or "raise"), the  *)
(* value returned or the error raised, what the grammar engine did, which  *)
(* cache it read, and the two caches as it leaves them.                    *)

LarkUnexpectedInputContext(text, error, terminal_descriptions) ==
    [kind |-> "LarkUnexpectedInputContext", text |-> text, error |-> error,
     terminal_descriptions |-> terminal_descriptions]

StackContext(parent, child) == [kind |-> "StackContext", parent |-> parent, child |-> child]

SpecificationParseError(context, cause) ==
    [kind |-> "SpecificationParseError", context |-> context, cause |-> cause]

DocstringParseError(context, cause) ==
    [kind |-> "DocstringParseError", context |-> context, cause |-> cause]

Outcome(outcome, value, engine, read, spec_cache, doc_cache) ==
    [outcome |-> outcome, value |-> value, engine |-> engine, read |-> read,
     argument_spec_cache |-> spec_cache, sphinx_docstring_cache |-> doc_cache]

\* dict.get(key): None, or the cached value.
CacheGet(cache, key) == IF key \in DOMAIN cache THEN Some(cache[key]) ELSE None

parse_argument_spec(spec_cache, doc_cache, text, context) ==
    LET cached_value == CacheGet(spec_cache, text)
        parsed == ArgumentSpecParserParse(text)
    IN  IF cached_value # None
        THEN Outcome("return", cached_value[1], "not invoked", {"argument_spec"},
                     spec_cache, doc_cache)
        ELSE IF parsed = UnexpectedInput
        THEN Outcome("raise",
                     SpecificationParseError(
                         StackContext(context,
                             LarkUnexpectedInputContext(text, parsed,
                                 _ARGUMENT_SPEC_TERMINAL_DESCRIPTIONS)),
                         parsed),
                     "UnexpectedInput", {"argument_spec"}, spec_cache, doc_cache)
        ELSE Outcome("return", argument_spec(parsed), "parsed", {"argument_spec"},
                     spec_cache, doc_cache)

SwappedErrorKindMutant(spec_cache, doc_cache, doc, specs, context) ==
    LET cached_value == CacheGet(doc_cache, <<doc, specs>>)
        parsed == DocstringParserParse(doc)
    IN  IF cached_value # None
        THEN Outcome("return", cached_value, "not invoked", {"sphinx_docstring"},
                     spec_cache, doc_cache)
        ELSE IF parsed = UnexpectedInput
        THEN Outcome("raise",
                     SpecificationParseError(
                         StackContext(context,
                             LarkUnexpectedInputContext(doc, parsed,
                                 _ARGUMENT_SPEC_TERMINAL_DESCRIPTIONS)),
                         parsed),
                     "UnexpectedInput", {"sphinx_docstring"}, spec_cache, doc_cache)
        ELSE Outcome("return", Some(RewriteDocstring(doc, specs, parsed)),
                     "parsed", {"sphinx_docstring"}, spec_cache, doc_cache)

_parse_and_rewrite_sphinx_docstring(spec_cache, doc_cache, doc, specs, context) ==
    LET cached_value == CacheGet(doc_cache, <<doc, specs>>)
        parsed == DocstringParserParse(doc)
    IN  IF cached_value # None
        THEN Outcome("return", cached_value, "not invoked", {"sphinx_docstring"},
                     spec_cache, doc_cache)
        ELSE IF parsed = UnexpectedInput
        THEN Outcome("raise",
                     DocstringParseError(
                         StackContext(context,
                             LarkUnexpectedInputContext(doc, parsed,
                                 _DOCSTRING_TERMINAL_DESCRIPTIONS)),
                         parsed),
                     "UnexpectedInput", {"sphinx_docstring"}, spec_cache, doc_cache)
        ELSE Outcome("return", Some(RewriteDocstring(doc, specs, parsed)),
                     "parsed", {"sphinx_docstring"}, spec_cache, doc_cache)

NoFormatCheckMutant(spec_cache, doc_cache, format, doc, argument_specs, context) ==
    IF doc = None
    THEN Outcome("return", None, "not invoked", {}, spec_cache, doc_cache)
    ELSE _parse_and_rewrite_sphinx_docstring(spec_cache, doc_cache, doc[1],
                                             argument_specs, context)

\* `format` is the value get_rewrite_docstrings() returns.
parse_and_rewrite_docstring(spec_cache, doc_cache, format, doc, argument_specs, context) ==
    IF doc = None
    THEN Outcome("return", None, "not invoked", {}, spec_cache, doc_cache)
    ELSE IF format = "NONE"
    THEN Outcome("return", doc, "not invoked", {}, spec_cache, doc_cache)
    ELSE IF format # "SPHINX"
    THEN Outcome("raise", AssertionError, "not invoked", {}, spec_cache, doc_cache)
    ELSE _parse_and_rewrite_sphinx_docstring(spec_cache, doc_cache, doc[1],
                                             argument_specs, context)

\* The values the rewrite mode can take; "OTHER" is any unsupported value.
DocstringFormats == {"NONE", "SPHINX", "OTHER"}

Init ==
    /\ pc = "idle"
    /\ tree = <<>>
    /\ acc = <<>>
    /\ idx = 0
    /\ aux = <<>>
    /\ ret = <<>>
    /\ argument_spec_cache = <<>>
    /\ sphinx_docstring_cache = <<>>
    /\ rewrite_docstrings = "SPHINX"
    /\ last = [op |-> "none"]

\* config.set_rewrite_docstrings(format)
SetRewriteDocstrings ==
    /\ \E format \in DocstringFormats : rewrite_docstrings' = format
    /\ UNCHANGED <<pc, tree, acc, idx, aux, ret, argument_spec_cache,
                   sphinx_docstring_cache, last>>

CallParseArgumentSpec ==
    /\ \E text \in ArgumentSpecTexts, context \in Contexts :
          LET r == parse_argument_spec(argument_spec_cache, sphinx_docstring_cache,
                                       text, context)
          IN  /\ argument_spec_cache' = r.argument_spec_cache
              /\ sphinx_docstring_cache' = r.sphinx_docstring_cache
              /\ last' = [op |-> "parse_argument_spec", text |-> text,
                          context |-> context,
                          before |-> <<argument_spec_cache, sphinx_docstring_cache>>,
                          result |-> r]
    /\ UNCHANGED <<pc, tree, acc, idx, aux, ret, rewrite_docstrings>>

CallParseAndRewriteDocstring ==
    /\ \E doc \in Docstrings, specs \in ArgumentSpecTuples, context \in Contexts :
          LET r == parse_and_rewrite_docstring(argument_spec_cache,
                       sphinx_docstring_cache, rewrite_docstrings, doc, specs, context)
          IN  /\ argument_spec_cache' = r.argument_spec_cache
              /\ sphinx_docstring_cache' = r.sphinx_docstring_cache
              /\ last' = [op |-> "parse_and_rewrite_docstring", doc |-> doc,
                          specs |-> specs, context |-> context,
                          format |-> rewrite_docstrings,
                          before |-> <<argument_spec_cache, sphinx_docstring_cache>>,
                          result |-> r]
    /\ UNCHANGED <<pc, tree, acc, idx, aux, ret, rewrite_docstrings>>

Next ==
    \/ SetRewriteDocstrings
    \/ CallParseArgumentSpec
    \/ CallParseAndRewriteDocstring

Spec == Init /\ [][Next]_vars

-----------------------------------------------------------------------------
(* Claims about the entry points. *)

CachesNow == <<argument_spec_cache, sphinx_docstring_cache>>

\* C3: a successful miss populates the cache of its entry point: after
\* parse_argument_spec(text) returns for an uncached text the argument-spec
\* cache maps text to the returned model, and after the sphinx rewrite returns
\* for an uncached (text, specs) key the docstring cache maps the key to the
\* returned string, so that the next call with the key is a hit.
C3_CachePopulatedOnMiss ==
    /\ (last.op = "parse_argument_spec" /\ last.result.engine = "parsed") =>
          /\ last.text \in DOMAIN argument_spec_cache
          /\ argument_spec_cache[last.text] = last.result.value
    /\ (last.op = "parse_and_rewrite_docstring" /\ last.result.engine = "parsed") =>
          /\ <<last.doc[1], last.specs>> \in DOMAIN sphinx_docstring_cache
          /\ sphinx_docstring_cache[<<last.doc[1], last.specs>>] = last.result.value[1]

\* C4: parse_and_rewrite_docstring returns absent for an absent documentation
\* whatever the mode, and the documentation unchanged in mode 'no rewriting';
\* in both cases the grammar engine is not invoked, nothing is raised and no
\* cache is read or changed.  With a present documentation, a mode other than
\* 'no rewriting' and sphinx is an assertion failure, not a returned value.
C4_PassThroughAndAssertion ==
    last.op = "parse_and_rewrite_docstring" =>
        /\ last.doc = None =>
              /\ last.result.outcome = "return"
              /\ last.result.value = None
              /\ last.result.engine = "not invoked"
              /\ last.result.read = {}
              /\ CachesNow = last.before
        /\ (last.doc # None /\ last.format = "NONE") =>
              /\ last.result.outcome = "return"
              /\ last.result.value = last.doc
              /\ last.result.engine = "not invoked"
              /\ last.result.read = {}
              /\ CachesNow = last.before
        /\ (last.doc # None /\ last.format \notin {"NONE", "SPHINX"}) =>
              /\ last.result.outcome = "raise"
              /\ last.result.value = AssertionError

C4_Witness ==
    /\ last.op = "parse_and_rewrite_docstring"
    /\ last.format = "NONE"
    /\ last.doc = Some(Docstring(<<>>, <<FieldXInline>>, <<>>).source)
    /\ last.specs = <<SpecX3>>
    /\ last.result.value = last.doc

\* The last call handed the grammar engine a text it rejects.
EngineRejected ==
    \/ /\ last.op = "parse_argument_spec"
       /\ last.text \in {Text_unterminated, Text_no_shape}
       /\ last.text \notin DOMAIN last.before[1]
    \/ /\ last.op = "parse_and_rewrite_docstring"
       /\ last.format = "SPHINX"
       /\ last.doc = Some(Text_bad_docstring)
       /\ <<Text_bad_docstring, last.specs>> \notin DOMAIN last.before[2]

\* C10: whenever the grammar engine rejects the input the entry point raises
\* and returns nothing: parse_argument_spec a specification parse failure, the
\* docstring rewrite a documentation parse failure, each carrying the text, the
\* engine's failure and the terminal descriptions of its own grammar, stacked
\* on the caller's context; this happens on every such call and both caches
\* are left as they were.
C10_RejectionIsRaised ==
    EngineRejected =>
        LET error == last.result.value
            input == IF last.op = "parse_argument_spec" THEN last.text ELSE last.doc[1]
        IN  /\ last.result.outcome = "raise"
            /\ last.result.engine = "UnexpectedInput"
            /\ error.kind = (IF last.op = "parse_argument_spec"
                             THEN "SpecificationParseError" ELSE "DocstringParseError")
            /\ error.cause = UnexpectedInput
            /\ error.context.kind = "StackContext"
            /\ error.context.parent = last.context
            /\ error.context.child.kind = "LarkUnexpectedInputContext"
            /\ error.context.child.text = input
            /\ error.context.child.error = UnexpectedInput
            /\ error.context.child.terminal_descriptions =
                  (IF last.op = "parse_argument_spec"
                   THEN _ARGUMENT_SPEC_TERMINAL_DESCRIPTIONS
                   ELSE _DOCSTRING_TERMINAL_DESCRIPTIONS)
            /\ _ARGUMENT_SPEC_TERMINAL_DESCRIPTIONS # _DOCSTRING_TERMINAL_DESCRIPTIONS
            /\ CachesNow = last.before

C10_Witness ==
    /\ EngineRejected
    /\ last.op = "parse_and_rewrite_docstring"
    /\ last.specs = <<SpecX3>>
    /\ last.result.outcome = "raise"
    /\ last.result.value.kind = "DocstringParseError"

====
